---- MODULE Spec2Model ----
(***************************************************************************)
(* Model of examples/ffmpeg.rs: `transcribe` drives a demuxer, an audio    *)
(* decoder and an audio resampler, accumulates mono f32 samples in         *)
(* `full_data`, hands the buffer to the whisper context and prints the     *)
(* resulting segments.                                                     *)
(*                                                                         *)
(* The program is sequential: `pc` is the position inside `transcribe`,    *)
(* one action per fallible call.  The demuxer, decoder, resampler and      *)
(* whisper context are library objects; their answers (packets, errors,    *)
(* frame shapes, segment count) are inputs chosen with \E, and their       *)
(* buffering follows the push/take/flush contract: a component holds back  *)
(* its newest `delay` frames until it is flushed.                          *)
(***************************************************************************)
EXTENDS Integers, Sequences, FiniteSets, TLC

\* ---------------------------------------------------------------- bounds
MaxStreams == 2          \* streams in the container
MaxPackets == 2          \* packets the demuxer returns before end of stream
MaxDelay == 1            \* frames a decoder / resampler holds back until flush
MaxPlaneBytes == 8       \* byte length of a plane
MaxSegments == 2         \* segments of an engine result

\* ------------------------------------------------------ program constants
SampleSize == 4          \* std::mem::size_of::<f32>()

VARIABLES
    pc,            \* position in transcribe
    result,        \* "running" | "ok" | "err" | "panic"
    err,           \* the operation whose error transcribe returned, or "none"
    streams,       \* demuxer.streams(): streams[i+1] is TRUE iff stream i is audio
    stream_index,  \* selected stream (0-based), -1 before selection
    npackets,      \* packets returned by the demuxer so far
    packet,        \* the packet bound by `while let Some(packet)`, or NoPacket
    nframes,       \* raw frames decoded so far (frame ids are 1..nframes)
    frame,         \* the raw frame bound by `while let Some(frame)`, 0 if none
    frames_per_packet, \* audio frames each packet of the stream decodes to
    dec_delay,     \* frames the decoder holds back
    dec_held,      \* decoded frames still inside the decoder
    dec_ready,     \* decoded frames take() can return
    res_delay,     \* frames the resampler holds back
    res_held,      \* converted frames still inside the resampler
    res_ready,     \* converted frames take() can return
    plane_bytes,   \* byte length of the planes the resampler produces
    built,         \* objects constructed so far
    full_data,     \* Vec<f32>: samples <<frame id, position in the plane>>
    segments,      \* the segments held by ctx after a successful ctx.full
    seg_i,         \* loop variable i of the segment loop
    printed,       \* lines written to stdout
    fed,           \* history: the buffers ctx.full was called with
    unflushed,     \* history: full_data and the resampler's residue at line 130
    demuxed,       \* history: packets demuxer.take() returned
    converted,     \* history: converted frames resampler.take() returned
    ops            \* history: every component call, in program order

vars == <<pc, result, err, streams, stream_index, npackets, packet, nframes,
          frame, frames_per_packet, dec_delay, dec_held, dec_ready, res_delay,
          res_held, res_ready, plane_bytes, built, full_data, segments, seg_i,
          printed, fed, unflushed, demuxed, converted, ops>>

inputVars == <<streams, frames_per_packet, dec_delay, res_delay, plane_bytes>>
demuxVars == <<npackets, packet>>
decVars   == <<nframes, dec_held, dec_ready>>
resVars   == <<res_held, res_ready>>
engVars   == <<segments, seg_i, printed>>
histVars  == <<demuxed, converted>>
auxVars   == <<fed, unflushed>>

\* `unflushed` before line 130 is reached.
NoSnapshot == [buf |-> <<>>, held |-> -1]

NoPacket == [id |-> 0, stream |-> -1]

\* Byte lengths a plane can have: the largest plane, with and without its
\* last byte.
PlaneByteLens == {MaxPlaneBytes - 1, MaxPlaneBytes}

\* Plane counts a converted frame can have (mono has one).
PlaneCounts == {0, 1, 2}

\* Audio frames a packet can decode to.
FramesPerPacket == {1, 2}

\* One entry of the call history.
Op(name, line, ret, arg) == [op |-> name, at |-> line, ret |-> ret, arg |-> arg]

\* ----------------------------------------------------------- pure helpers

\* Mutants of FindAudioStream: unwrap_or(0), and the last audio stream.
FindAudioStream_OrZero(ss) ==
    IF \E i \in 1..Len(ss) : ss[i]
    THEN (CHOOSE i \in 1..Len(ss) : ss[i] /\ \A j \in 1..(i-1) : ~ss[j]) - 1
    ELSE 0
FindAudioStream_Last(ss) ==
    IF \E i \in 1..Len(ss) : ss[i]
    THEN (CHOOSE i \in 1..Len(ss) : ss[i] /\ \A j \in (i+1)..Len(ss) : ~ss[j]) - 1
    ELSE -1

\* streams().iter().enumerate().find(|..| params.is_audio_codec()):
\* the 0-based index of the first audio stream, -1 for None.
FindAudioStream(ss) ==
    IF \E i \in 1..Len(ss) : ss[i]
    THEN (CHOOSE i \in 1..Len(ss) : ss[i] /\ \A j \in 1..(i-1) : ~ss[j]) - 1
    ELSE -1

\* Mutant of PlanesAssert: the assertion compiled out.
PlanesAssert_Off(f) == TRUE

\* assert!(planes.len() == 1)
PlanesAssert(f) == f.planes = 1

\* Mutant of GetMonoAudioData: one sample per byte (the division left out).
GetMonoAudioData_Bytes(f) ==
    [k \in 1..f.bytes |-> <<f.id, k>>]

\* get_mono_audio_data: output_len = input_len / size_of::<f32>() samples of
\* plane 0, in order.
GetMonoAudioData(f) ==
    [k \in 1..(f.bytes \div SampleSize) |-> <<f.id, k>>]

\* Mutant of Extend: the samples are inserted at the front.
Extend_Front(buf, f) == GetMonoAudioData(f) \o buf

\* full_data.extend(data)
Extend(buf, f) == buf \o GetMonoAudioData(f)

\* Mutant of Kept: a component drops what it does not release at once.
Kept_None(held, delay) == <<>>

\* Frames a component with hold-back `delay` releases once `held` is inside.
Released(held, delay) ==
    IF Len(held) > delay THEN SubSeq(held, 1, Len(held) - delay) ELSE <<>>
Kept(held, delay) ==
    IF Len(held) > delay THEN SubSeq(held, Len(held) - delay + 1, Len(held))
    ELSE held

\* ------------------------------------------------------------------ Init
Init ==
    /\ pc = "open"
    /\ result = "running"
    /\ err = "none"
    /\ streams \in UNION {[1..n -> BOOLEAN] : n \in 0..MaxStreams}
    /\ stream_index = -1
    /\ npackets = 0
    /\ packet = NoPacket
    /\ nframes = 0
    /\ frame = 0
    /\ frames_per_packet \in FramesPerPacket
    /\ dec_delay \in 0..MaxDelay
    /\ dec_held = <<>>
    /\ dec_ready = <<>>
    /\ res_delay \in 0..MaxDelay
    /\ res_held = <<>>
    /\ res_ready = <<>>
    /\ plane_bytes \in PlaneByteLens
    /\ built = {}
    /\ full_data = <<>>
    /\ segments = <<>>
    /\ seg_i = 0
    /\ printed = <<>>
    /\ fed = <<>>
    /\ unflushed = NoSnapshot
    /\ demuxed = <<>>
    /\ converted = <<>>
    /\ ops = <<>>

\* ---------------------------------------------------------- early return
\* Mutant of Fail: the error is dropped and the call is made again.
Fail_Swallowed(name, line, arg) ==
    /\ pc' = pc
    /\ result' = result
    /\ err' = err
    /\ ops' = Append(ops, Op(name, line, "err", arg))

\* `?` on an Err: transcribe returns the error; nothing else changes.
Fail(name, line, arg) ==
    /\ pc' = "returned"
    /\ result' = "err"
    /\ err' = name
    /\ ops' = Append(ops, Op(name, line, "err", arg))

\* A panic unwinds out of transcribe.
Panic ==
    /\ pc' = "returned"
    /\ result' = "panic"
    /\ err' = err

Continue(next) ==
    /\ pc' = next
    /\ result' = result
    /\ err' = err

\* ------------------------------------------------- control-flow successors
\* Mutants: the drains, the decoder drain, and the resampler flush left out.
AfterEndOfStream_NoDrains  == "ctx_full"
AfterDecoderFlush_NoDrain  == "res_flush"
AfterDecoderDrain_NoFlush  == "ctx_full"

\* More mutants: the model is never loaded; the main loop takes one decoded
\* frame per packet (`if let`); resampler.flush() is not followed by a drain;
\* the decoder is polled again after its drain ended; the driver starts the
\* drains over.
AfterBuildDecoder_NoModel       == "build_resampler"
AfterMainResamplerDrain_OneShot == "demux_take"
AfterResamplerFlush_NoDrain     == "ctx_full"
AfterDecoderDrain_Retake        == "flush_dec_take"
AfterResamplerDrain_Restart     == "dec_flush"

\* Mutant of IsSelected: the stream filter left out.
IsSelected_Any(p, idx) == TRUE

\* Where each statement or loop of transcribe goes when it ends.
AfterBuildDecoder       == "load_model"     \* line 79 -> 82
AfterMainResamplerDrain == "main_dec_take"  \* line 111 -> 109
AfterEndOfStream    == "dec_flush"       \* line 102 -> 120
AfterDecoderFlush   == "flush_dec_take"  \* line 120 -> 121
AfterDecoderDrain   == "res_flush"       \* line 121 -> 130
AfterResamplerFlush == "final_res_take"  \* line 130 -> 131
AfterResamplerDrain == "ctx_full"        \* line 131 -> 137

\* packet.stream_index() != stream_index  (the negation: the packet is kept)
IsSelected(p, idx) == p.stream = idx

\* ---------------------------------------------------------------- set-up
\* line 67: open_input(input)?
OpenInput ==
    /\ pc = "open"
    /\ \/ /\ Continue("select")
          /\ ops' = Append(ops, Op("open_input", 67, "ok", 0))
       \/ Fail("open_input", 67, 0)
    /\ UNCHANGED <<auxVars, inputVars, stream_index, demuxVars, decVars, frame,
                   resVars,
                   built, full_data, engVars, histVars>>

\* lines 68-78: the first audio stream, or Error("no audio stream").
\* as_audio_codec_parameters() is Some for a stream whose codec is audio.
SelectStream ==
    /\ pc = "select"
    /\ LET idx == FindAudioStream(streams) IN
         IF idx = -1
         THEN /\ Fail("select_stream", 74, 0)
              /\ stream_index' = stream_index
         ELSE /\ Continue("build_decoder")
              /\ stream_index' = idx
              /\ ops' = Append(ops, Op("select_stream", 74, "ok", idx))
    /\ UNCHANGED <<auxVars, inputVars, demuxVars, decVars, frame, resVars, built,
                   full_data, engVars, histVars>>

\* line 79: AudioDecoder::from_stream(stream)?.build()?
BuildDecoder ==
    /\ pc = "build_decoder"
    /\ \/ /\ Continue(AfterBuildDecoder)
          /\ built' = built \cup {"decoder"}
          /\ ops' = Append(ops, Op("build_decoder", 79, "ok", 0))
       \/ /\ Fail("build_decoder", 79, 0)
          /\ built' = built
    /\ UNCHANGED <<auxVars, inputVars, stream_index, demuxVars, decVars, frame,
                   resVars,
                   full_data, engVars, histVars>>

\* lines 82-83: WhisperContext::new(model_path)
LoadModel ==
    /\ pc = "load_model"
    /\ \/ /\ Continue("build_resampler")
          /\ built' = built \cup {"ctx"}
          /\ ops' = Append(ops, Op("load_model", 82, "ok", 0))
       \/ /\ Fail("load_model", 82, 0)
          /\ built' = built
    /\ UNCHANGED <<auxVars, inputVars, stream_index, demuxVars, decVars, frame,
                   resVars,
                   full_data, engVars, histVars>>

\* lines 90-99: AudioResampler::builder()...build()?, then Vec::new()
BuildResampler ==
    /\ pc = "build_resampler"
    /\ \/ /\ Continue("demux_take")
          /\ built' = built \cup {"resampler", "full_data"}
          /\ ops' = Append(ops, Op("build_resampler", 97, "ok", 0))
       \/ /\ Fail("build_resampler", 97, 0)
          /\ built' = built
    /\ UNCHANGED <<auxVars, inputVars, stream_index, demuxVars, decVars, frame,
                   resVars,
                   full_data, engVars, histVars>>

\* ------------------------------------------------------------- main loop
\* lines 102-105: demuxer.take()?, and the stream filter.
DemuxerTake ==
    /\ pc = "demux_take"
    /\ \/ /\ Fail("demux_take", 102, 0)
          /\ UNCHANGED <<demuxVars, demuxed>>
       \/ /\ Continue(AfterEndOfStream)
          /\ ops' = Append(ops, Op("demux_take", 102, "none", 0))
          /\ UNCHANGED <<demuxVars, demuxed>>
       \/ /\ npackets < MaxPackets
          /\ \E s \in 0..(Len(streams) - 1) :
               LET p == [id |-> npackets + 1, stream |-> s] IN
                 /\ npackets' = npackets + 1
                 /\ demuxed' = Append(demuxed, p)
                 /\ ops' = Append(ops, Op("demux_take", 102, "some", p.id))
                 /\ IF IsSelected(p, stream_index)
                    THEN packet' = p /\ Continue("dec_push")
                    ELSE packet' = NoPacket /\ Continue("demux_take")
    /\ UNCHANGED <<auxVars, inputVars, stream_index, decVars, frame, resVars, built,
                   full_data, engVars, converted>>

\* line 107: decoder.push(packet)?  The packet decodes to frames_per_packet
\* frames; the decoder keeps its newest dec_delay frames inside.
DecoderPush ==
    /\ pc = "dec_push"
    /\ \/ /\ Fail("dec_push", 107, packet.id)
          /\ UNCHANGED <<decVars, packet>>
       \/ LET nf == frames_per_packet
              all == dec_held \o [k \in 1..nf |-> nframes + k] IN
              /\ nframes' = nframes + nf
              /\ dec_held' = Kept(all, dec_delay)
              /\ dec_ready' = dec_ready \o Released(all, dec_delay)
              /\ packet' = NoPacket
              /\ ops' = Append(ops, Op("dec_push", 107, "ok", packet.id))
              /\ Continue("main_dec_take")
    /\ UNCHANGED <<auxVars, inputVars, stream_index, npackets, frame, resVars, built,
                   full_data, engVars, histVars>>

\* `while let Some(frame) = decoder.take()?` at `here`.
DecoderTake(here, line, onSome, onNone) ==
    /\ pc = here
    /\ \/ /\ Fail("dec_take", line, 0)
          /\ UNCHANGED <<decVars, frame>>
       \/ /\ dec_ready = <<>>
          /\ Continue(onNone)
          /\ ops' = Append(ops, Op("dec_take", line, "none", 0))
          /\ UNCHANGED <<decVars, frame>>
       \/ /\ dec_ready # <<>>
          /\ frame' = Head(dec_ready)
          /\ dec_ready' = Tail(dec_ready)
          /\ Continue(onSome)
          /\ ops' = Append(ops, Op("dec_take", line, "some", Head(dec_ready)))
          /\ UNCHANGED <<nframes, dec_held>>
    /\ UNCHANGED <<auxVars, inputVars, stream_index, demuxVars, resVars, built,
                   full_data, engVars, histVars>>

\* resampler.push(frame)? at `here`: one converted frame per raw frame; the
\* resampler keeps its newest res_delay frames inside.
ResamplerPush(here, line, next) ==
    /\ pc = here
    /\ \/ /\ Fail("res_push", line, frame)
          /\ UNCHANGED <<resVars, frame>>
       \/ LET all == res_held \o <<frame>> IN
            /\ res_held' = Kept(all, res_delay)
            /\ res_ready' = res_ready \o Released(all, res_delay)
            /\ frame' = 0
            /\ ops' = Append(ops, Op("res_push", line, "ok", frame))
            /\ Continue(next)
    /\ UNCHANGED <<auxVars, inputVars, stream_index, demuxVars, decVars, built,
                   full_data, engVars, histVars>>

\* `while let Some(frame) = resampler.take()?` at `here`, with the loop body
\* frame.planes(), get_mono_audio_data(&planes), full_data.extend(data).
ResamplerTake(here, line, extendLine, onNone) ==
    /\ pc = here
    /\ \/ /\ Fail("res_take", line, 0)
          /\ UNCHANGED <<resVars, full_data, converted>>
       \/ /\ res_ready = <<>>
          /\ Continue(onNone)
          /\ ops' = Append(ops, Op("res_take", line, "none", 0))
          /\ UNCHANGED <<resVars, full_data, converted>>
       \/ /\ res_ready # <<>>
          /\ \E np \in PlaneCounts :
               LET f == [id |-> Head(res_ready), planes |-> np,
                         bytes |-> plane_bytes]
                   took == Append(ops, Op("res_take", line, "some", f.id))
               IN /\ res_ready' = Tail(res_ready)
                  /\ res_held' = res_held
                  /\ converted' = Append(converted, f)
                  /\ IF PlanesAssert(f)
                     THEN /\ full_data' = Extend(full_data, f)
                          /\ ops' = Append(took, Op("extend", extendLine, "ok", f.id))
                          /\ Continue(here)
                     ELSE /\ full_data' = full_data
                          /\ ops' = took
                          /\ Panic
    /\ UNCHANGED <<auxVars, inputVars, stream_index, demuxVars, decVars, frame, built,
                   engVars, demuxed>>

MainDecoderTake   == DecoderTake("main_dec_take", 109, "main_res_push", "demux_take")
MainResamplerPush == ResamplerPush("main_res_push", 110, "main_res_take")
MainResamplerTake ==
    ResamplerTake("main_res_take", 111, 115, AfterMainResamplerDrain)

\* ---------------------------------------------------------- decoder flush
\* line 120: decoder.flush()?  Everything held becomes available.
DecoderFlush ==
    /\ pc = "dec_flush"
    /\ \/ /\ Fail("dec_flush", 120, 0)
          /\ UNCHANGED decVars
       \/ /\ dec_ready' = dec_ready \o dec_held
          /\ dec_held' = <<>>
          /\ nframes' = nframes
          /\ ops' = Append(ops, Op("dec_flush", 120, "ok", 0))
          /\ Continue(AfterDecoderFlush)
    /\ UNCHANGED <<auxVars, inputVars, stream_index, demuxVars, frame, resVars, built,
                   full_data, engVars, histVars>>

FlushDecoderTake   == DecoderTake("flush_dec_take", 121, "flush_res_push", AfterDecoderDrain)
FlushResamplerPush == ResamplerPush("flush_res_push", 122, "flush_res_take")
FlushResamplerTake == ResamplerTake("flush_res_take", 123, 126, "flush_dec_take")

\* -------------------------------------------------------- resampler flush
\* line 130: resampler.flush()?
ResamplerFlush ==
    /\ pc = "res_flush"
    /\ \/ /\ Fail("res_flush", 130, 0)
          /\ UNCHANGED resVars
       \/ /\ res_ready' = res_ready \o res_held
          /\ res_held' = <<>>
          /\ ops' = Append(ops, Op("res_flush", 130, "ok", 0))
          /\ Continue(AfterResamplerFlush)
    /\ unflushed' = [buf |-> full_data, held |-> Len(res_held)]
    /\ UNCHANGED <<fed, inputVars, stream_index, demuxVars, decVars, frame, built,
                   full_data, engVars, histVars>>

FinalResamplerTake == ResamplerTake("final_res_take", 131, 134, AfterResamplerDrain)

\* ------------------------------------------------------------ recognition
\* The segments an engine result of n segments holds.
EngineSegments(n) ==
    [i \in 1..n |-> [t0 |-> 10 * (i - 1), t1 |-> 10 * i, text |-> i]]

\* Mutant of EngineInput: the slice stops one sample short.
EngineInput_Short(buf) == SubSeq(buf, 1, Len(buf) - 1)

\* line 137: &full_data[..], the whole buffer.
EngineInput(buf) == buf

\* lines 137-140: ctx.full(get_params(language), &full_data[..])
CtxFull ==
    /\ pc = "ctx_full"
    /\ fed' = Append(fed, EngineInput(full_data))
    /\ \/ /\ Fail("ctx_full", 137, 0)
          /\ UNCHANGED engVars
       \/ \E n \in 0..MaxSegments :
            /\ segments' = EngineSegments(n)
            /\ seg_i' = 0
            /\ printed' = printed
            /\ ops' = Append(ops, Op("ctx_full", 137, "ok", Len(full_data)))
            /\ Continue("segment")
    /\ UNCHANGED <<unflushed, inputVars, stream_index, demuxVars, decVars, frame,
                   resVars, built, full_data, histVars>>

\* Mutant of SegmentLine: start and end exchanged.
SegmentLine_Swapped(i) ==
    <<segments[i + 1].t1, segments[i + 1].t0, segments[i + 1].text>>

\* lines 142-145: the line println! writes for segment i:
\* "[{} - {}]: {}" with start_timestamp, end_timestamp, segment.
SegmentLine(i) ==
    <<segments[i + 1].t0, segments[i + 1].t1, segments[i + 1].text>>

\* lines 141-146: one iteration of `for i in 0..num_segments`.
\* full_get_segment_text(i).expect(..) panics on Err; t0/t1 cannot fail.
PrintSegment ==
    /\ pc = "segment"
    /\ seg_i < Len(segments)
    /\ \/ /\ ops' = Append(ops, Op("segment_text", 142, "err", seg_i))
          /\ Panic
          /\ UNCHANGED engVars
       \/ /\ ops' = Append(ops, Op("segment_text", 142, "ok", seg_i))
          /\ printed' = Append(printed, SegmentLine(seg_i))
          /\ seg_i' = seg_i + 1
          /\ segments' = segments
          /\ Continue("segment")
    /\ UNCHANGED <<auxVars, inputVars, stream_index, demuxVars, decVars, frame,
                   resVars,
                   built, full_data, histVars>>

\* line 148: Ok(())
ReturnOk ==
    /\ pc = "segment"
    /\ seg_i = Len(segments)
    /\ pc' = "returned"
    /\ result' = "ok"
    /\ UNCHANGED <<err, auxVars, inputVars, stream_index, demuxVars, decVars, frame,
                   resVars, built, full_data, engVars, histVars, ops>>

Next ==
    \/ OpenInput
    \/ SelectStream
    \/ BuildDecoder
    \/ LoadModel
    \/ BuildResampler
    \/ DemuxerTake
    \/ DecoderPush
    \/ MainDecoderTake
    \/ MainResamplerPush
    \/ MainResamplerTake
    \/ DecoderFlush
    \/ FlushDecoderTake
    \/ FlushResamplerPush
    \/ FlushResamplerTake
    \/ ResamplerFlush
    \/ FinalResamplerTake
    \/ CtxFull
    \/ PrintSegment
    \/ ReturnOk

Spec == Init /\ [][Next]_vars

\* transcribe is one sequential thread: whenever it has a next statement it
\* executes it (each library call returns).
FairSpec == Spec /\ WF_vars(Next)

\* ======================================================= history readers
OpsOf(name)  == SelectSeq(ops, LAMBDA o : o.op = name)
ArgsOf(name) == LET s == OpsOf(name) IN [i \in 1..Len(s) |-> s[i].arg]
At(o)        == {i \in 1..Len(ops) : ops[i] = o}
CalledAt(name, line) ==
    \E i \in 1..Len(ops) : ops[i].op = name /\ ops[i].at = line
Called(name) == \E i \in 1..Len(ops) : ops[i].op = name
Iota(n)      == [i \in 1..n |-> i]
Min(a, b)    == IF a < b THEN a ELSE b

\* The driver states of the three-phase drain.
Reading          == pc \in {"demux_take", "dec_push", "main_dec_take",
                            "main_res_push", "main_res_take", "dec_flush"}
DrainingDecoder  == pc \in {"flush_dec_take", "flush_res_push",
                            "flush_res_take", "res_flush"}
DrainingConverter == pc = "final_res_take"
Done             == pc \in {"ctx_full", "segment"} \/ Called("ctx_full")

\* ==================================================================== C1
\* C1: the engine (ctx.full) is invoked only after decoder.flush() was called
\* and the decoder drained to None, and after resampler.flush() was called and
\* the resampler drained to None, in that order; while the driver is Reading,
\* DrainingDecoder or DrainingConverter the engine has not been invoked, and
\* when it is invoked nothing is left inside the decoder or the resampler.
C1_EngineAfterBothFlushes ==
    /\ (Reading \/ DrainingDecoder \/ DrainingConverter) => ~Called("ctx_full")
    /\ Done =>
         /\ \E a \in At(Op("dec_flush", 120, "ok", 0)) :
            \E b \in At(Op("dec_take", 121, "none", 0)) :
            \E c \in At(Op("res_flush", 130, "ok", 0)) :
            \E d \in At(Op("res_take", 131, "none", 0)) :
              /\ a < b /\ b < c /\ c < d
              /\ \A i \in 1..Len(ops) : ops[i].op = "ctx_full" => d < i
         /\ dec_held = <<>> /\ dec_ready = <<>>
         /\ res_held = <<>> /\ res_ready = <<>>

\* The engine has run on a buffer that holds samples of frames the decoder
\* and the resampler gave up only when flushed.
C1_Witness ==
    /\ Called("ctx_full")
    /\ CalledAt("extend", 126)
    /\ CalledAt("extend", 134)

\* ==================================================================== C2
\* C2: flush completeness.  When the driver is Done, every frame the pushed
\* packets decoded to was emitted by the resampler exactly once, in order, and
\* every emitted frame was appended to full_data exactly once; the two drain
\* phases appended exactly the frames that were still held back inside the
\* decoder and the resampler at end of input.
C2_FlushCompleteness ==
    (Done /\ result # "panic") =>
        /\ [i \in 1..Len(converted) |-> converted[i].id] = Iota(nframes)
        /\ ArgsOf("extend") = Iota(nframes)
        /\ Len(SelectSeq(OpsOf("extend"), LAMBDA o : o.at \in {126, 134}))
             = Min(nframes, dec_delay + res_delay)

\* Done with four frames, two of which came out only in the drain phases.
C2_Witness ==
    /\ Done
    /\ nframes = 4
    /\ dec_delay = 1 /\ res_delay = 1
    /\ Len(SelectSeq(OpsOf("extend"), LAMBDA o : o.at \in {126, 134})) = 2

\* ==================================================================== C3
\* C3: phase order.  The appends of the main loop (line 115) precede those of
\* the decoder-flush drain (line 126), which precede those of the
\* converter-flush drain (line 134); full_data is the concatenation, in the
\* order the resampler emitted them, of the samples of the frames appended.
RECURSIVE SamplesOf(_)
SamplesOf(fs) ==
    IF fs = <<>> THEN <<>>
    ELSE SamplesOf(SubSeq(fs, 1, Len(fs) - 1))
           \o [k \in 1..(fs[Len(fs)].bytes \div SampleSize) |-> <<fs[Len(fs)].id, k>>]

PhaseOf(line) == CASE line = 115 -> 1 [] line = 126 -> 2 [] line = 134 -> 3

C3_PhaseOrder ==
    LET ext == OpsOf("extend")
        app == SelectSeq(converted, LAMBDA f : f.planes = 1)
    IN /\ \A i, j \in 1..Len(ext) : i < j => PhaseOf(ext[i].at) <= PhaseOf(ext[j].at)
       /\ [i \in 1..Len(ext) |-> ext[i].arg] = [i \in 1..Len(app) |-> app[i].id]
       /\ \A i, j \in 1..Len(app) : i < j => app[i].id < app[j].id
       /\ full_data = SamplesOf(app)

\* All three phases appended, and a frame contributed two samples.
C3_Witness ==
    /\ CalledAt("extend", 115)
    /\ CalledAt("extend", 126)
    /\ CalledAt("extend", 134)
    /\ \E n \in 1..Len(full_data) : full_data[n][2] = 2

\* ==================================================================== C4
\* C4: every raw frame the decoder emitted, in the main loop and in the
\* decoder-flush drain, was pushed into the resampler before
\* resampler.flush() is called; when resampler.flush() is called the decoder
\* holds no frame and the driver holds none.
C4_DecoderDrainedBeforeResamplerFlush ==
    (pc = "res_flush" \/ Called("res_flush")) =>
        /\ dec_held = <<>> /\ dec_ready = <<>> /\ frame = 0
        /\ SelectSeq(ArgsOf("dec_take"), LAMBDA a : a # 0) = Iota(nframes)
        /\ \A i \in 1..Len(ops) :
             (ops[i].op = "dec_take" /\ ops[i].ret = "some") =>
                \E k \in 1..Len(ops) :
                    /\ i < k
                    /\ ops[k].op = "res_push" /\ ops[k].arg = ops[i].arg
                    /\ ops[k].ret = "ok"
        /\ \A r \in 1..Len(ops) : ops[r].op = "res_flush" =>
               \A k \in 1..Len(ops) : ops[k].op = "res_push" => k < r

\* resampler.flush() was called after frames came out of the decoder both in
\* the main loop and in its drain.
C4_Witness ==
    /\ Called("res_flush")
    /\ CalledAt("res_push", 110)
    /\ CalledAt("res_push", 122)

\* ==================================================================== C5
\* C5: a packet is pushed into the decoder only if its stream index is the
\* selected one; a packet of another stream is followed directly by the next
\* demuxer.take() (no decoder, resampler or buffer operation), and every
\* packet of the selected stream is pushed exactly once, right after it was
\* taken.
C5_StreamFilter ==
    LET pushes == ArgsOf("dec_push")
        wanted == SelectSeq(demuxed, LAMBDA p : p.stream = stream_index)
    IN /\ \A i \in 1..Len(ops) :
            (ops[i].op = "demux_take" /\ ops[i].ret = "some") =>
               LET p == demuxed[ops[i].arg] IN
                 /\ p.id = ops[i].arg
                 /\ IF p.stream = stream_index
                    THEN \/ i = Len(ops) /\ pc = "dec_push" /\ packet = p
                         \/ i < Len(ops) /\ ops[i+1].op = "dec_push"
                                         /\ ops[i+1].arg = p.id
                    ELSE \/ i = Len(ops) /\ pc = "demux_take"
                         \/ i < Len(ops) /\ ops[i+1].op = "demux_take"
       /\ \A i \in 1..Len(pushes) :
            /\ demuxed[pushes[i]].stream = stream_index
            /\ wanted[i].id = pushes[i]
       /\ Len(wanted) - Len(pushes) = (IF pc = "dec_push" THEN 1 ELSE 0)

\* The run ended well after a packet of another stream and a packet of the
\* selected stream were taken.
C5_Witness ==
    /\ result = "ok"
    /\ \E i, j \in 1..Len(demuxed) :
         /\ demuxed[i].stream # stream_index
         /\ demuxed[j].stream = stream_index

\* ==================================================================== C6
\* C6: when a component operation (demuxer take, decoder push/take/flush,
\* resampler push/take/flush, engine run, and the constructors) returns an
\* error, it is the last operation of the run: transcribe has returned that
\* error, the engine is not invoked afterwards and no line is printed.
C6_ErrorAborts ==
    /\ \A i \in 1..Len(ops) :
         (ops[i].ret = "err" /\ ops[i].op # "segment_text") =>
            /\ i = Len(ops)
            /\ pc = "returned"
            /\ result = "err"
            /\ err = ops[i].op
            /\ printed = <<>>
    /\ result = "err" =>
         /\ ops # <<>>
         /\ ops[Len(ops)].ret = "err"
         /\ ops[Len(ops)].op = err

\* An error in the middle of a drain, with samples already accumulated.
C6_Witness ==
    /\ result = "err"
    /\ err = "res_take"
    /\ full_data # <<>>
    /\ Called("dec_flush")

C8_AsClaimed ==
    \A i \in 1..Len(converted) :
        (converted[i].planes = 1 /\ converted[i].bytes % SampleSize # 0) =>
            /\ result = "err"
            /\ err = "MalformedFrame"
            /\ \A n \in 1..Len(full_data) : full_data[n][1] # converted[i].id

\* ==================================================================== C9
\* C9: with no audio stream among the input's streams, transcribe returns
\* the no-audio-stream error (unless opening the input already failed): no
\* packet is pulled, no decoder, model or resampler is built, no buffer is
\* produced and the engine is never invoked.
NoAudio == \A i \in 1..Len(streams) : ~streams[i]

C9_NoAudioStream ==
    NoAudio =>
        /\ pc \in {"open", "select", "returned"}
        /\ stream_index = -1
        /\ npackets = 0 /\ demuxed = <<>>
        /\ built = {}
        /\ full_data = <<>> /\ converted = <<>>
        /\ printed = <<>>
        /\ \A i \in 1..Len(ops) : ops[i].op \in {"open_input", "select_stream"}
        /\ pc = "returned" =>
             /\ result = "err"
             /\ err \in {"open_input", "select_stream"}
             /\ err = "select_stream" <=> Len(ops) = 2

\* An input with two streams, neither audio, was rejected by the selection.
C9_Witness ==
    /\ NoAudio
    /\ Len(streams) = 2
    /\ pc = "returned"
    /\ err = "select_stream"

\* =================================================================== C10
\* C10: the selected stream index is the smallest index of an audio stream
\* (if the input has one, selection succeeds), and once selected it never
\* changes.
C10_FirstAudioStream ==
    /\ [](/\ stream_index # -1 =>
               /\ stream_index \in 0..(Len(streams) - 1)
               /\ streams[stream_index + 1]
               /\ \A j \in 1..stream_index : ~streams[j]
          /\ (~NoAudio /\ pc \notin {"open", "select"} /\ err # "open_input")
               => stream_index # -1)
    /\ [][stream_index # -1 => stream_index' = stream_index]_vars

\* Stream 0 is not audio, stream 1 is; stream 1 was selected and the run
\* went through the whole pipeline.
C10_Witness ==
    /\ streams = <<FALSE, TRUE>>
    /\ stream_index = 1
    /\ result = "ok"
    /\ full_data # <<>>

\* =================================================================== C11
\* C11: when reading the text of segment i fails, the call fails with the
\* error value SegmentReadFailure and no segment of the result has been
\* delivered (none of segments 0..i-1 was printed).
C11_AsClaimed ==
    \A i \in 1..Len(ops) :
        (ops[i].op = "segment_text" /\ ops[i].ret = "err") =>
            /\ result = "err"
            /\ err = "SegmentReadFailure"
            /\ printed = <<>>

\* =================================================================== C12
\* C12: the engine is invoked at most once in a run; a run that ends
\* successfully invoked it exactly once, and what it was given is the final
\* buffer: full_data as it is after all three phases, holding every frame.
C12_EngineOnce ==
    /\ Len(fed) <= 1
    /\ Len(OpsOf("ctx_full")) = Len(fed)
    /\ fed # <<>> =>
         /\ fed[1] = full_data
         /\ ArgsOf("extend") = Iota(nframes)
         /\ res_held = <<>> /\ res_ready = <<>>
    /\ result = "ok" =>
         /\ Len(fed) = 1
         /\ OpsOf("ctx_full")[1].ret = "ok"

\* A successful run whose engine call received eight samples.
C12_Witness ==
    /\ result = "ok"
    /\ Len(fed) = 1
    /\ Len(fed[1]) = 8

IsPrefix(s, t) == Len(s) <= Len(t) /\ s = SubSeq(t, 1, Len(s))

C14_FlushOmissionLossy ==
    (Done /\ unflushed.held > 0) =>
        /\ Len(unflushed.buf) < Len(full_data)
        /\ IsPrefix(unflushed.buf, full_data)
        /\ Len(full_data) - Len(unflushed.buf)
             = unflushed.held * (plane_bytes \div SampleSize)

\* A successful run whose resampler held a frame when input ended.
C14_Witness ==
    /\ result = "ok"
    /\ unflushed.held = 1
    /\ Len(unflushed.buf) = 2
    /\ Len(full_data) = 4

\* =================================================================== C16
\* C16: full_data is append-only.  In every step the old content is a prefix
\* of the new; the content changes only when a converted frame is appended,
\* and then the length grows by the byte length of its plane divided by 4;
\* from the engine invocation onwards it does not change.
C16_AppendOnly ==
    [][ /\ IsPrefix(full_data, full_data')
        /\ full_data' # full_data => Len(converted') = Len(converted) + 1
        /\ Len(OpsOf("extend"))' > Len(OpsOf("extend")) =>
             Len(full_data') = Len(full_data)
                 + (converted'[Len(converted')].bytes \div SampleSize)
        /\ Done => full_data' = full_data
      ]_vars

\* A second frame of eight bytes was appended: the buffer holds four samples.
C16_Witness ==
    /\ Len(OpsOf("extend")) = 2
    /\ plane_bytes = 8
    /\ Len(full_data) = 4

\* =================================================================== C17
\* C17: whenever the driver is about to pull the next packet, the decoder and
\* the resampler have no available frame left and the driver holds none:
\* every frame the decoder has released was pushed into the resampler, and
\* every frame the resampler has released was appended.  At any time the
\* driver holds at most one raw frame.
C17_NothingLeftBehind ==
    LET taken  == SelectSeq(ArgsOf("dec_take"), LAMBDA a : a # 0)
        pushed == SelectSeq(OpsOf("res_push"), LAMBDA o : o.ret = "ok")
    IN /\ pc = "demux_take" =>
            /\ dec_ready = <<>> /\ res_ready = <<>> /\ frame = 0
            /\ Len(pushed) = nframes - Len(dec_held)
            /\ ArgsOf("extend") = Iota(nframes - Len(dec_held) - Len(res_held))
       /\ Len(taken) - Len(pushed) = IF frame = 0 THEN 0 ELSE 1

\* Back at the top of the loop after two packets of two frames each.
C17_Witness ==
    /\ pc = "demux_take"
    /\ nframes = 4
    /\ Len(OpsOf("extend")) >= 3

\* =================================================================== C19
\* C19: decoder.flush() and resampler.flush() are each called at most once;
\* nothing is pushed into a component after its flush; once a take() after
\* the flush of a component returned None, take() is not called on that
\* component again.
NoLater(i, name) == \A j \in (i + 1)..Len(ops) : ops[j].op # name

C19_FlushProtocol ==
    /\ Len(OpsOf("dec_flush")) <= 1
    /\ Len(OpsOf("res_flush")) <= 1
    /\ \A i \in 1..Len(ops) :
         /\ ops[i].op = "dec_flush" =>
              /\ NoLater(i, "dec_push")
              /\ \A j \in (i + 1)..Len(ops) :
                   (ops[j].op = "dec_take" /\ ops[j].ret = "none") =>
                       NoLater(j, "dec_take")
         /\ ops[i].op = "res_flush" =>
              /\ NoLater(i, "res_push")
              /\ \A j \in (i + 1)..Len(ops) :
                   (ops[j].op = "res_take" /\ ops[j].ret = "none") =>
                       NoLater(j, "res_take")

\* Both flushes were called, frames came out after each, and the engine ran.
C19_Witness ==
    /\ Called("ctx_full")
    /\ CalledAt("res_push", 122)
    /\ CalledAt("extend", 134)

\* =================================================================== C20
\* C20: the model is loaded after the stream was selected and the decoder
\* built, and before the first packet is pulled.  When loading it fails,
\* transcribe returns the error; no packet was read, full_data was never
\* created, and nothing was called on the decoder, the resampler or the
\* engine.
C20_ModelLoadedBeforePackets ==
    /\ Called("load_model") =>
         /\ Len(ops) >= 4
         /\ ops[1] = Op("open_input", 67, "ok", 0)
         /\ ops[2] = Op("select_stream", 74, "ok", stream_index)
         /\ ops[3] = Op("build_decoder", 79, "ok", 0)
         /\ ops[4].op = "load_model"
    /\ Called("demux_take") => ops[4] = Op("load_model", 82, "ok", 0)
    /\ err = "load_model" =>
         /\ result = "err" /\ pc = "returned"
         /\ Len(ops) = 4
         /\ npackets = 0 /\ demuxed = <<>>
         /\ built = {"decoder"}
         /\ full_data = <<>>
         /\ nframes = 0 /\ converted = <<>> /\ fed = <<>>

\* The model failed to load.
C20_Witness ==
    /\ err = "load_model"
    /\ Len(ops) = 4
    /\ ops[4] = Op("load_model", 82, "err", 0)

\* =================================================================== C18
\* C18: the driver passes through Reading, DrainingDecoder and
\* DrainingConverter in that order, never going back to an earlier one and
\* never skipping one, and every run eventually is Done or has aborted: no
\* loop of the main phase or of the two drains runs forever.
PhaseRank(p) ==
    CASE p \in {"open", "select", "build_decoder", "load_model",
                "build_resampler"} -> 0
      [] p \in {"demux_take", "dec_push", "main_dec_take", "main_res_push",
                "main_res_take", "dec_flush"} -> 1
      [] p \in {"flush_dec_take", "flush_res_push", "flush_res_take",
                "res_flush"} -> 2
      [] p = "final_res_take" -> 3
      [] p \in {"ctx_full", "segment"} -> 4
      [] p = "returned" -> 5

C18_Terminates ==
    /\ [][ \/ PhaseRank(pc') \in {PhaseRank(pc), PhaseRank(pc) + 1}
           \/ pc' = "returned" /\ result' \in {"err", "panic"} ]_vars
    /\ <>(Done \/ result \in {"err", "panic"})
    /\ (pc = "dec_flush") ~> (pc \in {"res_flush", "returned"})
    /\ (pc = "res_flush") ~> (pc \in {"ctx_full", "returned"})

\* Done after both drain loops ran for a frame each.
C18_Witness ==
    /\ pc = "ctx_full"
    /\ CalledAt("dec_take", 121) /\ CalledAt("extend", 126)
    /\ CalledAt("extend", 134)
    /\ npackets = 2

\* =================================================================== C15
\* C15: determinism.  What a successful run produces is a function of its
\* input alone: full_data is determined by the packet sequence, the selected
\* stream and what the decoder and the resampler make of a packet
\* (frames per packet, bytes per plane), whatever the components held back
\* and whenever they released it; the engine is given exactly that buffer;
\* and the lines written are determined by the engine's result.  Two runs
\* on the same input therefore agree on the buffer and on every segment.
FramesOf(packets) ==
    LET sel == SelectSeq(packets, LAMBDA p : p.stream = FindAudioStream(streams))
    IN [i \in 1..(Len(sel) * frames_per_packet) |->
           [id |-> i, planes |-> 1, bytes |-> plane_bytes]]

C15_Deterministic ==
    result = "ok" =>
        /\ full_data = SamplesOf(FramesOf(demuxed))
        /\ fed = <<SamplesOf(FramesOf(demuxed))>>
        /\ printed = [k \in 1..Len(segments) |->
                         <<segments[k].t0, segments[k].t1, segments[k].text>>]

\* A successful run on two packets of the audio stream, with hold-back in
\* both components, and two segments.
C15_Witness ==
    /\ result = "ok"
    /\ Len(FramesOf(demuxed)) = 4
    /\ dec_delay = 1 /\ res_delay = 1
    /\ Len(printed) = 2

====
